---- MODULE Spec2Model ----
(***************************************************************************)
(* A model of compost-go's comment reconciliation engine                   *)
(* (internal/comment/handler.go): the CommentHandler operations            *)
(* UpdateComment, NewComment, HideAndNewComment, DeleteAndNewComment and   *)
(* LatestMatchingComment, run against a platform that keeps the comments   *)
(* of one pull request or commit.                                          *)
(*                                                                         *)
(* Every PlatformHandler call is one step: the action of a call models the *)
(* call and the handler code that follows it up to the next call.          *)
(*                                                                         *)
(* Further specifications model the detector chain of internal/detect      *)
(* (SpecDetect), the platform handler registry (SpecFactory) and the       *)
(* construction of the CommentHandler by the command layer (SpecCmd).      *)
(***************************************************************************)
EXTENDS Naturals, Sequences, FiniteSets, TLC

\* ---------------------------------------------------------------- bounds

\* Comment ids the platform hands out: 1..MaxIds.
MaxIds == 3
\* Comments on the target before the first operation: ids 1..MaxInit.
MaxInit == 2
\* Creation timestamps are 1..MaxTime (two comments may share one).
MaxTime == 2

\* ------------------------------------------------------- bodies and tags

defaultTag == "compost-comment"

\* The tags whose markers occur in comment bodies.
Tags == {defaultTag, "custom"}

\* The tag the CommentHandler is built with.
HandlerTags == {defaultTag}

\* A body is a sequence of tokens; a token is text or the marker of a tag.
Txt(s) == <<"txt", s>>
markdownTag(tag) == <<"tag", tag>>

\* The body with the marker of the tag embedded at its beginning.
addMarkdownTag(body, tag) == <<markdownTag(tag)>> \o body

\* Whether the body carries the marker of the tag.
HasTag(body, tag) == \E i \in 1..Len(body) : body[i] = markdownTag(tag)

\* Bodies a caller passes.
Bodies == {<<Txt("a")>>, <<Txt("b")>>}

\* Bodies of the comments found on the target before the first operation:
\* posted earlier under the default tag, or under another tag.
InitBodies ==
  {addMarkdownTag(b, defaultTag) : b \in Bodies} \cup {addMarkdownTag(<<Txt("a")>>, "custom")}

\* --------------------------------------------------------------- comments

\* The nil Comment.
Nil == [id |-> 0, body |-> <<>>, hidden |-> FALSE, createdAt |-> 0]

Body(c) == c.body
Ref(c) == c.id
IsHidden(c) == c.hidden

\* Comment.Less: creation time descending, a strict weak ordering.
Less(c, d) == c.createdAt > d.createdAt

Swap(s, i, j) == [s EXCEPT ![i] = s[j], ![j] = s[i]]

RECURSIVE insertionSort(_, _)
\* Moves s[j] towards the front while it is Less than its left neighbour.
insertionSort(s, j) ==
  IF j > 1 /\ Less(s[j], s[j - 1])
  THEN insertionSort(Swap(s, j, j - 1), j - 1)
  ELSE s

RECURSIVE sortFrom(_, _)
sortFrom(s, i) ==
  IF i > Len(s) THEN s ELSE sortFrom(insertionSort(s, i), i + 1)

\* sort.Slice(matchingComments, Less): an insertion sort for slices this short.
SortSlice(s) == sortFrom(s, 2)

\* All the orders a set can be listed in.
Perms(S) ==
  {s \in [1..Cardinality(S) -> S] : \A i, j \in 1..Cardinality(S) : i # j => s[i] # s[j]}

\* ------------------------------------------------------------------ state

VARIABLES
  comments,         \* the comments on the target: records [id, body, hidden, createdAt]
  nextId,           \* the id the platform gives the next created comment
  Tag,              \* CommentHandler.Tag
  hideImplemented,  \* whether the PlatformHandler supports CallHideComment
  op,               \* the operation running or last run
  body,             \* its body argument
  pc,               \* the PlatformHandler call it is about to make
  matchingComments, \* what CallFindMatchingComments returned, in arrival order
  todo,             \* the comments the hide or delete loop has yet to visit
  target,           \* the comment CallUpdateComment is about to be called with
  calls,            \* the PlatformHandler calls the operation has issued
  err,              \* the operation's result
  ret,              \* the Comment LatestMatchingComment returned
  pre,              \* the comments on the target when the operation began
  prev,             \* the operation before this one, when it was an UpdateComment
                    \* that returned nil
  ctx               \* the context of the operation: whether it is cancelled, and
                    \* the number of calls the operation had issued when it was

VARIABLES
  tagFlag,                 \* the tag the caller configured ("" when none)
  platformHandlerRegister, \* the platform handler registry
  factoryRet,              \* what the last NewPlatformHandlerFactory call returned
  run                      \* the command the process runs: its arguments and flags,
                           \* what the factory was invoked with, what it printed

VARIABLES
  detectorRegistry, \* the detector registry
  env,              \* the environment variables and the event file
  opts,             \* the DetectOptions of the running DetectEnvironment call
  dpc,              \* where DetectEnvironment is: "idle", "loop" or "done"
  di,               \* the index of the registry item the loop is at
  invoked,          \* the Detect calls of the running DetectEnvironment call
  dret              \* what DetectEnvironment returned

\* The state of the comment handler and the platform.
hvars ==
  <<comments, nextId, Tag, hideImplemented, op, body, pc, matchingComments, todo,
    target, calls, err, ret, pre, prev, ctx>>

\* The state of the command layer and of the platform handler registry.
cvars == <<tagFlag, platformHandlerRegister, factoryRet, run>>

\* The state of the detector chain.
dvars == <<detectorRegistry, env, opts, dpc, di, invoked, dret>>

vars == <<hvars, cvars, dvars>>

NoOp == [op |-> "none", body |-> <<>>, err |-> "none", calls |-> <<>>, pre |-> {}]

Times == 1..MaxTime

\* The comment sets the target may hold before the first operation. The
\* platform numbers comments in the order of their creation.
InitComments ==
  UNION {
    { {[id |-> i, body |-> b[i], hidden |-> h[i], createdAt |-> t[i]] : i \in 1..n} :
        b \in [1..n -> InitBodies], h \in [1..n -> BOOLEAN],
        t \in {u \in [1..n -> Times] : \A i, j \in 1..n : i < j => u[i] <= u[j]} }
    : n \in 0..MaxInit }

\* No NewPlatformHandlerFactory call was made.
NoFactoryRet == [platform |-> "", targetType |-> "", factory |-> 0, err |-> ""]

\* The factory was not invoked.
NoFactoryArgs ==
  [project |-> "", targetRef |-> "", extra |-> [kind |-> "nil", Token |-> ""]]

\* No command is run.
NoRun ==
  [kind |-> "none", sub |-> "none", targetType |-> "", platformFlag |-> "",
   targetTypeFlag |-> "", bodySet |-> FALSE, bodyFileSet |-> FALSE,
   factoryArgs |-> NoFactoryArgs, out |-> <<>>, panicked |-> FALSE]

\* No handler is built by the command layer.
CmdUnused ==
  /\ tagFlag = ""
  /\ platformHandlerRegister = <<>>
  /\ factoryRet = NoFactoryRet
  /\ run = NoRun

\* A nil error.
NoErr == [type |-> "nil", msg |-> ""]

\* The zero DetectResult.
EmptyResult ==
  [Platform |-> "", Project |-> "", TargetType |-> "", TargetRef |-> "",
   Extra |-> [kind |-> "nil", Token |-> ""]]

\* The zero DetectOptions.
NoOpts == [Platform |-> "", TargetType |-> ""]

NoRet == [result |-> EmptyResult, err |-> NoErr]

\* No detection is run.
DetectUnused ==
  /\ detectorRegistry = <<>>
  /\ env = <<>>
  /\ opts = NoOpts
  /\ dpc = "idle"
  /\ di = 0
  /\ invoked = <<>>
  /\ dret = NoRet

\* A context that is not cancelled.
Live == [cancelled |-> FALSE, at |-> 0]

Init ==
  /\ CmdUnused
  /\ DetectUnused
  /\ comments \in InitComments
  /\ nextId = Cardinality(comments) + 1
  /\ Tag \in HandlerTags
  /\ hideImplemented \in BOOLEAN
  /\ op = "none"
  /\ body = <<>>
  /\ pc = "idle"
  /\ matchingComments = <<>>
  /\ todo = <<>>
  /\ target = Nil
  /\ calls = <<>>
  /\ err = "none"
  /\ ret = Nil
  /\ pre = {}
  /\ prev = NoOp
  /\ ctx = Live

\* ------------------------------------------------- the platform's effects

\* CallFindMatchingComments: the comments whose body carries the marker of the tag.
Matching(cs, tag) == {c \in cs : HasTag(c.body, tag)}

\* A PlatformHandler call as the operation's log keeps it.
Call(name, c, b, res) == [call |-> name, id |-> Ref(c), body |-> b, res |-> res]

\* CallCreateComment: the platform stores the body exactly as passed.
Created(b, t) == [id |-> nextId, body |-> b, hidden |-> FALSE, createdAt |-> t]

\* A new comment is no older than the comments already there.
CreateTimes == {t \in Times : \A c \in comments : c.createdAt <= t}

\* CallUpdateComment, CallHideComment, CallDeleteComment on comment c.
Updated(cs, c, b) == {IF d.id = c.id THEN [d EXCEPT !.body = b] ELSE d : d \in cs}
Hidden(cs, c) == {IF d.id = c.id THEN [d EXCEPT !.hidden = TRUE] ELSE d : d \in cs}
Deleted(cs, c) == {d \in cs : d.id # c.id}

\* ------------------------------------------------ the handler's decisions

\* A slip: the last element of the sorted slice instead of the first.
latestMatchingComment_Last(found) ==
  IF Len(SortSlice(found)) = 0 THEN Nil ELSE SortSlice(found)[Len(found)]

\* A slip: the slice is not sorted before its first element is taken.
latestMatchingComment_Unsorted(found) ==
  IF Len(found) = 0 THEN Nil ELSE found[1]

\* LatestMatchingComment, after matchingComments returned: sort, then the
\* first element, or nil when there is none.
latestMatchingComment(found) ==
  IF Len(SortSlice(found)) = 0 THEN Nil ELSE SortSlice(found)[1]

\* A slip: the comparison with the body of the latest comment is left out.
updateStep_NoSkip(latest, bodyWithTag) ==
  IF latest # Nil THEN "update" ELSE "create"

\* UpdateComment, after LatestMatchingComment returned: the call it goes on to.
updateStep(latest, bodyWithTag) ==
  IF latest # Nil
  THEN IF Body(latest) = bodyWithTag THEN "done" ELSE "update"
  ELSE "create"

\* A slip: the body is passed on without the tag.
updateBody_Raw(b, tag) == b

\* The body UpdateComment creates or updates with.
updateBody(b, tag) == addMarkdownTag(b, tag)

\* A slip: NewComment adds the marker of the tag, as UpdateComment does.
newCommentBody_Tagged(b) == addMarkdownTag(b, defaultTag)

\* The body NewComment creates with.
newCommentBody(b) == b

\* A slip: the comments already hidden are not filtered out.
visibleComments_All(cs) == cs

\* hideComments: the comments it goes on to hide.
visibleComments(cs) == SelectSeq(cs, LAMBDA c : ~IsHidden(c))

\* A slip: the hidden comments are skipped, as hideComments skips them.
deletedComments_VisibleOnly(cs) == SelectSeq(cs, LAMBDA c : ~IsHidden(c))

\* deleteComments: the comments it goes on to delete.
deletedComments(cs) == cs

\* The body the running operation passes to CallCreateComment.
createBody == IF op = "UpdateComment" THEN updateBody(body, Tag) ELSE newCommentBody(body)

\* -------------------------------------------------------------- operations

Idle == pc \in {"idle", "done"}

\* An operation begins.
Begin(o, b, first) ==
  /\ op' = o
  /\ body' = b
  /\ pc' = first
  /\ matchingComments' = <<>>
  /\ todo' = <<>>
  /\ target' = Nil
  /\ calls' = <<>>
  /\ err' = "none"
  /\ ret' = Nil
  /\ pre' = comments
  /\ prev' = IF op = "UpdateComment" /\ err = "nil"
             THEN [op |-> op, body |-> body, err |-> err, calls |-> calls, pre |-> pre]
             ELSE NoOp
  /\ ctx' = Live
  /\ UNCHANGED <<comments, nextId, Tag, hideImplemented, cvars, dvars>>

\* The platform has an id left for the comment the operation may create.
CanCreate == nextId <= MaxIds

UpdateComment(b) ==
  /\ Idle /\ CanCreate
  /\ Begin("UpdateComment", b, "find")

NewComment(b) ==
  /\ Idle /\ CanCreate
  /\ Begin("NewComment", b, "create")

HideAndNewComment(b) ==
  /\ Idle /\ CanCreate
  /\ Begin("HideAndNewComment", b, "find")

DeleteAndNewComment(b) ==
  /\ Idle /\ CanCreate
  /\ Begin("DeleteAndNewComment", b, "find")

LatestMatchingComment ==
  /\ Idle /\ CanCreate
  /\ Begin("LatestMatchingComment", <<>>, "find")

\* A slip: the error of a hide or delete call is dropped and the loop goes on.
Return_KeepGoing(e) ==
  IF e # "nil" /\ pc \in {"hide", "delete"}
  THEN /\ pc' = IF Tail(todo) = <<>> THEN "create" ELSE pc
       /\ err' = err
       /\ todo' = Tail(todo)
       /\ target' = Nil
  ELSE /\ pc' = "done"
       /\ err' = e
       /\ todo' = <<>>
       /\ target' = Nil

\* The operation returns e.
Return(e) ==
  /\ pc' = "done"
  /\ err' = e
  /\ todo' = <<>>
  /\ target' = Nil

\* The operation goes on to the call `step`.
Goto(step, t, rest) ==
  /\ pc' = step
  /\ err' = err
  /\ todo' = rest
  /\ target' = t

\* What the operation does with the comments CallFindMatchingComments returned.
AfterFind(found) ==
  /\ matchingComments' = found
  /\ CASE op = "LatestMatchingComment" ->
            /\ ret' = latestMatchingComment(found)
            /\ Return("nil")
       [] op = "UpdateComment" ->
            LET latest == latestMatchingComment(found)
                step == updateStep(latest, updateBody(body, Tag))
            IN  /\ ret' = ret
                /\ IF step = "done"
                   THEN Return("nil")
                   ELSE Goto(step, IF step = "update" THEN latest ELSE Nil, <<>>)
       [] op = "HideAndNewComment" ->
            /\ ret' = ret
            /\ IF visibleComments(found) = <<>>
               THEN Goto("create", Nil, <<>>)
               ELSE Goto("hide", Nil, visibleComments(found))
       [] op = "DeleteAndNewComment" ->
            /\ ret' = ret
            /\ IF deletedComments(found) = <<>>
               THEN Goto("create", Nil, <<>>)
               ELSE Goto("delete", Nil, deletedComments(found))

CallFindMatchingComments ==
  /\ pc = "find"
  /\ \/ /\ calls' = Append(calls, Call("find", Nil, <<markdownTag(Tag)>>, "error"))
        /\ Return("error")
        /\ UNCHANGED <<matchingComments, ret>>
     \/ /\ calls' = Append(calls, Call("find", Nil, <<markdownTag(Tag)>>, "nil"))
        /\ \E found \in Perms(Matching(comments, Tag)) : AfterFind(found)
  /\ UNCHANGED <<comments, nextId, Tag, hideImplemented, op, body, pre, prev, ctx, cvars, dvars>>

CallUpdateComment ==
  /\ pc = "update"
  /\ \/ /\ calls' = Append(calls, Call("update", target, updateBody(body, Tag), "error"))
        /\ Return("error")
        /\ UNCHANGED comments
     \/ /\ calls' = Append(calls, Call("update", target, updateBody(body, Tag), "nil"))
        /\ Return("nil")
        /\ comments' = Updated(comments, target, updateBody(body, Tag))
  /\ UNCHANGED <<nextId, Tag, hideImplemented, op, body, matchingComments, ret, pre, prev,
               ctx, cvars, dvars>>

CallCreateComment ==
  /\ pc = "create"
  /\ \/ /\ calls' = Append(calls, Call("create", Nil, createBody, "nil"))
        /\ Return("nil")
        /\ \E t \in CreateTimes : comments' = comments \cup {Created(createBody, t)}
        /\ nextId' = nextId + 1
     \/ /\ calls' = Append(calls, Call("create", Nil, createBody, "error"))
        /\ Return("error")
        /\ UNCHANGED <<comments, nextId>>
  /\ UNCHANGED <<Tag, hideImplemented, op, body, matchingComments, ret, pre, prev, ctx,
               cvars, dvars>>

\* The loop of hideComments or deleteComments moves on after a call succeeded;
\* after the last one the operation goes on to NewComment.
NextInLoop(again) ==
  IF Tail(todo) = <<>> THEN Goto("create", Nil, <<>>) ELSE Goto(again, Nil, Tail(todo))

CallHideComment ==
  /\ pc = "hide"
  /\ IF ~hideImplemented
     THEN /\ calls' = Append(calls, Call("hide", Head(todo), <<>>, "not implemented"))
          /\ Return("not implemented")
          /\ UNCHANGED comments
     ELSE \/ /\ calls' = Append(calls, Call("hide", Head(todo), <<>>, "error"))
             /\ Return("error")
             /\ UNCHANGED comments
          \/ /\ calls' = Append(calls, Call("hide", Head(todo), <<>>, "nil"))
             /\ NextInLoop("hide")
             /\ comments' = Hidden(comments, Head(todo))
  /\ UNCHANGED <<nextId, Tag, hideImplemented, op, body, matchingComments, ret, pre, prev,
               ctx, cvars, dvars>>

CallDeleteComment ==
  /\ pc = "delete"
  /\ \/ /\ calls' = Append(calls, Call("delete", Head(todo), <<>>, "error"))
        /\ Return("error")
        /\ UNCHANGED comments
     \/ /\ calls' = Append(calls, Call("delete", Head(todo), <<>>, "nil"))
        /\ NextInLoop("delete")
        /\ comments' = Deleted(comments, Head(todo))
  /\ UNCHANGED <<nextId, Tag, hideImplemented, op, body, matchingComments, ret, pre, prev,
               ctx, cvars, dvars>>

Next ==
  \/ \E b \in Bodies : UpdateComment(b)
  \/ \E b \in Bodies : NewComment(b)
  \/ \E b \in Bodies : HideAndNewComment(b)
  \/ \E b \in Bodies : DeleteAndNewComment(b)
  \/ LatestMatchingComment
  \/ CallFindMatchingComments
  \/ CallUpdateComment
  \/ CallCreateComment
  \/ CallHideComment
  \/ CallDeleteComment

Spec == Init /\ [][Next]_vars

\* --------------------------------------------------------------- cancellation

\* The context of the running operation is cancelled, or its deadline passes.
\* The handler hands the context on to every call; whether a call made with a
\* cancelled context fails is up to the PlatformHandler.
Cancel ==
  /\ pc \in {"find", "update", "create", "hide", "delete"}
  /\ ~ctx.cancelled
  /\ ctx' = [cancelled |-> TRUE, at |-> Len(calls)]
  /\ UNCHANGED <<comments, nextId, Tag, hideImplemented, op, body, pc, matchingComments, todo,
                 target, calls, err, ret, pre, prev, cvars, dvars>>

CtxNext ==
  \/ Cancel
  \/ Next

SpecCtx == Init /\ [][CtxNext]_vars

\* ------------------------------------------------------- the environment

\* Registered detectors of a registry: 0..MaxDetectors.
MaxDetectors == 3

\* errors.New, fmt.Errorf: an error that is not a DetectError.
New(msg) == [type |-> "error", msg |-> msg]

\* A slip: the error is returned as it is, not wrapped.
DetectError_Plain(e) == e

\* &DetectError{err}: the 'does not apply' condition wrapping err.
DetectError(e) == [type |-> "DetectError", msg |-> e.msg]

EnvVars ==
  {"GITHUB_ACTIONS", "GITHUB_TOKEN", "GITHUB_REPOSITORY", "GITHUB_EVENT_PATH", "GITHUB_SHA",
   "GITLAB_CI", "GITLAB_TOKEN", "CI_PROJECT_PATH", "CI_MERGE_REQUEST_IID", "CI_COMMIT_SHA"}

\* os.Getenv: "" for a variable that is not set.
Getenv(e, name) == e.vars[name]

\* checkEnvVarExists: the value, or an error when it is empty.
checkEnvVarExists(e, name) ==
  IF Getenv(e, name) = ""
  THEN [val |-> "", err |-> New(name \o " environment variable is not set")]
  ELSE [val |-> Getenv(e, name), err |-> NoErr]

\* checkEnvVarValue: an error unless the variable is set to the expected value.
checkEnvVarValue(e, name, expected) ==
  IF checkEnvVarExists(e, name).err # NoErr
  THEN checkEnvVarExists(e, name).err
  ELSE IF Getenv(e, name) # expected
       THEN New(name \o " environment variable is set to " \o Getenv(e, name)
                  \o ", expected " \o expected)
       ELSE NoErr

Digit == <<"0", "1", "2", "3", "4", "5", "6", "7", "8", "9">>

RECURSIVE Itoa(_)
\* strconv.Itoa, for the numbers a pull request may have.
Itoa(n) == IF n < 10 THEN Digit[n + 1] ELSE Itoa(n \div 10) \o Digit[(n % 10) + 1]

\* The file at GITHUB_EVENT_PATH: whether os.ReadFile and json.Unmarshal
\* succeed on it, and the pull_request fields it decodes to (zero values for
\* an event that has no pull request).
EventFiles ==
  {[readable |-> FALSE, valid |-> FALSE, Number |-> 0, SHA |-> ""],
   [readable |-> TRUE, valid |-> FALSE, Number |-> 0, SHA |-> ""],
   [readable |-> TRUE, valid |-> TRUE, Number |-> 0, SHA |-> ""],
   [readable |-> TRUE, valid |-> TRUE, Number |-> 12, SHA |-> "headsha"]}

NoFile == [readable |-> FALSE, valid |-> FALSE, Number |-> 0, SHA |-> ""]

\* The variables GitHub Actions sets, in every combination.
GitHubVars ==
  [{"GITHUB_ACTIONS"} -> {"", "true", "false"}] \X [{"GITHUB_TOKEN"} -> {"", "ghtoken"}]
    \X [{"GITHUB_REPOSITORY"} -> {"", "owner/repo"}] \X [{"GITHUB_SHA"} -> {"", "ghsha"}]

GitHubEnvs ==
  {[vars |-> v[1] @@ v[2] @@ v[3] @@ v[4] @@ ("GITHUB_EVENT_PATH" :> p), eventFile |-> f] :
     v \in GitHubVars, p \in {"/event.json"}, f \in EventFiles}
  \cup
  {[vars |-> v[1] @@ v[2] @@ v[3] @@ v[4] @@ ("GITHUB_EVENT_PATH" :> ""), eventFile |-> NoFile] :
     v \in GitHubVars}

\* The variables GitLab CI sets, in every combination.
GitLabEnvs ==
  {v[1] @@ v[2] @@ v[3] @@ v[4] @@ v[5] :
     v \in [{"GITLAB_CI"} -> {"", "true", "false"}] \X [{"GITLAB_TOKEN"} -> {"", "gltoken"}]
             \X [{"CI_PROJECT_PATH"} -> {"", "group/project"}]
             \X [{"CI_MERGE_REQUEST_IID"} -> {"", "5"}] \X [{"CI_COMMIT_SHA"} -> {"", "glsha"}]}

\* No variable of the platform is set, or those of a pipeline for a commit.
GitHubPlain ==
  {e \in GitHubEnvs :
     /\ Getenv(e, "GITHUB_EVENT_PATH") = ""
     /\ \/ \A n \in DOMAIN e.vars : e.vars[n] = ""
        \/ \A n \in DOMAIN e.vars \ {"GITHUB_EVENT_PATH"} : e.vars[n] \notin {"", "false"}}

GitLabPlain ==
  {v \in GitLabEnvs :
     /\ v["CI_MERGE_REQUEST_IID"] = ""
     /\ \/ \A n \in DOMAIN v : v[n] = ""
        \/ \A n \in DOMAIN v \ {"CI_MERGE_REQUEST_IID"} : v[n] \notin {"", "false"}}

\* The environments a detection runs in: the variables of one platform in
\* every combination, those of the other plain.
Envs ==
  {[vars |-> g.vars @@ l, eventFile |-> g.eventFile] : g \in GitHubEnvs, l \in GitLabPlain}
  \cup
  {[vars |-> g.vars @@ l, eventFile |-> g.eventFile] : g \in GitHubPlain, l \in GitLabEnvs}

\* The environment in which no variable is set.
EmptyEnv == [vars |-> [n \in EnvVars |-> ""], eventFile |-> NoFile]

\* ---------------------------------------------------------- the detectors

\* What Detect returns when it fails with e.
Failed(e) == [result |-> EmptyResult, err |-> e]

\* A slip: an unresolved target ref is let through.
refMissing_Never(targetRef) == FALSE

\* The last check of Detect: no target ref was determined.
refMissing(targetRef) == targetRef = ""

\* GitHubActionsDetector.Detect.
GitHubActionsDetect(e, o) ==
  LET marker == checkEnvVarValue(e, "GITHUB_ACTIONS", "true")
      token == checkEnvVarExists(e, "GITHUB_TOKEN")
      project == checkEnvVarExists(e, "GITHUB_REPOSITORY")
      eventPath == Getenv(e, "GITHUB_EVENT_PATH")
      event == IF eventPath # ""
               THEN [Number |-> e.eventFile.Number, SHA |-> e.eventFile.SHA]
               ELSE [Number |-> 0, SHA |-> ""]
      number == IF o.TargetType \in {"", "pull-request"} THEN Itoa(event.Number) ELSE ""
      commit == (number = "" /\ o.TargetType = "") \/ o.TargetType = "commit"
      sha == IF event.SHA # ""
             THEN [val |-> event.SHA, err |-> NoErr]
             ELSE checkEnvVarExists(e, "GITHUB_SHA")
      targetType == IF commit THEN "commit" ELSE IF number # "" THEN "pull-request" ELSE ""
      targetRef == IF commit THEN sha.val ELSE number
  IN  IF marker # NoErr THEN Failed(DetectError(marker))
      ELSE IF token.err # NoErr THEN Failed(DetectError(token.err))
      ELSE IF project.err # NoErr THEN Failed(DetectError(project.err))
      ELSE IF eventPath # "" /\ ~e.eventFile.readable
        THEN Failed(DetectError(New("open " \o eventPath \o ": no such file or directory")))
      ELSE IF eventPath # "" /\ ~e.eventFile.valid
        THEN Failed(DetectError(New("unexpected end of JSON input")))
      ELSE IF commit /\ sha.err # NoErr THEN Failed(DetectError(sha.err))
      ELSE IF refMissing(targetRef)
        THEN Failed(DetectError(New("Could not determine target ref")))
      ELSE [result |-> [Platform |-> "github", Project |-> project.val,
                        TargetType |-> targetType, TargetRef |-> targetRef,
                        Extra |-> [kind |-> "GitHubExtra", Token |-> token.val]],
            err |-> NoErr]

\* GitLabCIDetector.Detect.
GitLabCIDetect(e, o) ==
  LET marker == checkEnvVarValue(e, "GITLAB_CI", "true")
      token == checkEnvVarExists(e, "GITLAB_TOKEN")
      project == checkEnvVarExists(e, "CI_PROJECT_PATH")
      iid == IF o.TargetType \in {"", "pull-request"}
             THEN Getenv(e, "CI_MERGE_REQUEST_IID")
             ELSE ""
      commit == (iid = "" /\ o.TargetType = "") \/ o.TargetType = "commit"
      sha == checkEnvVarExists(e, "CI_COMMIT_SHA")
      targetType == IF commit THEN "commit" ELSE IF iid # "" THEN "pull-request" ELSE ""
      targetRef == IF commit THEN sha.val ELSE iid
  IN  IF marker # NoErr THEN Failed(DetectError(marker))
      ELSE IF token.err # NoErr THEN Failed(DetectError(token.err))
      ELSE IF project.err # NoErr THEN Failed(DetectError(project.err))
      ELSE IF commit /\ sha.err # NoErr THEN Failed(DetectError(sha.err))
      ELSE IF refMissing(targetRef)
        THEN Failed(DetectError(New("Could not determine target ref")))
      ELSE [result |-> [Platform |-> "gitlab", Project |-> project.val,
                        TargetType |-> targetType, TargetRef |-> targetRef,
                        Extra |-> [kind |-> "GitLabExtra", Token |-> token.val]],
            err |-> NoErr]

\* A detector that is neither of the two: it does not apply ("soft"), fails
\* with an error that is not a DetectError ("hard"), or succeeds ("ok").
StubDetect(d, o) ==
  CASE d.outcome = "soft" -> Failed(DetectError(New(d.name \o " does not apply")))
    [] d.outcome = "hard" -> Failed(New(d.name \o " failed"))
    [] OTHER ->
         [result |-> [Platform |-> d.platform, Project |-> d.name,
                      TargetType |-> IF o.TargetType = "" THEN "commit" ELSE o.TargetType,
                      TargetRef |-> "ref",
                      Extra |-> [kind |-> "nil", Token |-> ""]],
          err |-> NoErr]

\* detector.Detect(ctx, opts), by the type of the detector.
Detect(d, e, o) ==
  CASE d.kind = "GitHubActions" -> GitHubActionsDetect(e, o)
    [] d.kind = "GitLabCI" -> GitLabCIDetect(e, o)
    [] OTHER -> StubDetect(d, o)

\* The registry items the init functions of the two detectors register.
GitHubItem ==
  [supportedPlatforms |-> <<"github">>,
   detector |-> [kind |-> "GitHubActions", name |-> "GitHub Actions", platform |-> "github",
                 outcome |-> ""]]

GitLabItem ==
  [supportedPlatforms |-> <<"gitlab">>,
   detector |-> [kind |-> "GitLabCI", name |-> "GitLab CI", platform |-> "gitlab",
                 outcome |-> ""]]

\* The registry of the program: the two detectors, in either order of
\* initialization.
RealRegistries == {<<GitHubItem, GitLabItem>>, <<GitLabItem, GitHubItem>>}

StubNames == <<"A", "B", "C", "D", "E">>
StubPlatforms == {<<"github">>, <<"gitlab">>, <<"github", "gitlab">>}
Outcomes == {"soft", "hard", "ok"}

\* Registries of up to MaxDetectors other detectors.
StubRegistries ==
  UNION {
    { [i \in 1..n |->
         [supportedPlatforms |-> sp[i],
          detector |-> [kind |-> "stub", name |-> StubNames[i], platform |-> sp[i][1],
                        outcome |-> oc[i]]]] :
        sp \in [1..n -> StubPlatforms], oc \in [1..n -> Outcomes] }
    : n \in 0..MaxDetectors }

\* The DetectOptions a caller passes.
Opts == [Platform : {"", "github", "gitlab", "bitbucket"},
         TargetType : {"", "pull-request", "commit"}]

\* ------------------------------------------------------ DetectEnvironment

\* contains: whether the slice a holds s.
contains(a, s) == \E i \in 1..Len(a) : a[i] = s

\* A slip: the platform filter is not applied.
isCandidate_NoFilter(item, o) == TRUE

\* Whether the loop invokes the detector of the item, or skips it.
isCandidate(item, o) == ~(o.Platform # "" /\ ~contains(item.supportedPlatforms, o.Platform))

\* A slip: every error of a detector is taken as 'does not apply'.
afterDetect_AllSoft(e) == IF e = NoErr THEN "return" ELSE "continue"

\* A slip: the loop goes on after a detector succeeded.
afterDetect_Exhaustive(e) == IF e.type = "error" THEN "abort" ELSE "continue"

\* What the loop does with the error Detect returned.
afterDetect(e) ==
  IF e # NoErr
  THEN IF e.type = "DetectError" THEN "continue" ELSE "abort"
  ELSE "return"

\* A slip: an exhausted chain returns no error.
notDetected_Nil == NoRet

\* What DetectEnvironment returns after the loop.
notDetected == Failed(DetectError(New("Could not to detect environment")))

\* No reconciliation runs.
HandlerUnused ==
  /\ comments = {}
  /\ nextId = 1
  /\ Tag = defaultTag
  /\ hideImplemented = FALSE
  /\ op = "none"
  /\ body = <<>>
  /\ pc = "idle"
  /\ matchingComments = <<>>
  /\ todo = <<>>
  /\ target = Nil
  /\ calls = <<>>
  /\ err = "none"
  /\ ret = Nil
  /\ pre = {}
  /\ prev = NoOp
  /\ ctx = Live

InitDetect ==
  /\ HandlerUnused
  /\ CmdUnused
  /\ \/ detectorRegistry \in RealRegistries /\ env \in Envs
     \/ detectorRegistry \in StubRegistries /\ env = EmptyEnv
  /\ opts = NoOpts
  /\ dpc = "idle"
  /\ di = 0
  /\ invoked = <<>>
  /\ dret = NoRet

\* DetectEnvironment is called with the options o.
DetectEnvironment(o) ==
  /\ dpc \in {"idle", "done"}
  /\ opts' = o
  /\ dpc' = "loop"
  /\ di' = 1
  /\ invoked' = <<>>
  /\ dret' = NoRet
  /\ UNCHANGED <<detectorRegistry, env, hvars, cvars>>

\* A slip: the item the platform filter excludes is removed from the registry.
SkipDetector_Drops ==
  /\ dpc = "loop"
  /\ di <= Len(detectorRegistry)
  /\ ~isCandidate(detectorRegistry[di], opts)
  /\ detectorRegistry' =
       [i \in 1..(Len(detectorRegistry) - 1) |->
          IF i < di THEN detectorRegistry[i] ELSE detectorRegistry[i + 1]]
  /\ UNCHANGED <<env, opts, dpc, di, invoked, dret, hvars, cvars>>

\* The loop skips an item the platform filter excludes.
SkipDetector ==
  /\ dpc = "loop"
  /\ di <= Len(detectorRegistry)
  /\ ~isCandidate(detectorRegistry[di], opts)
  /\ di' = di + 1
  /\ UNCHANGED <<detectorRegistry, env, opts, dpc, invoked, dret, hvars, cvars>>

\* The loop invokes the detector of an item and acts on what it returns.
CallDetect ==
  /\ dpc = "loop"
  /\ di <= Len(detectorRegistry)
  /\ isCandidate(detectorRegistry[di], opts)
  /\ LET r == Detect(detectorRegistry[di].detector, env, opts)
         step == afterDetect(r.err)
     IN  /\ invoked' = Append(invoked, [i |-> di, result |-> r.result, err |-> r.err])
         /\ dpc' = IF step = "continue" THEN "loop" ELSE "done"
         /\ di' = IF step = "continue" THEN di + 1 ELSE di
         /\ dret' = CASE step = "return" -> [result |-> r.result, err |-> NoErr]
                      [] step = "abort" -> Failed(r.err)
                      [] OTHER -> dret
  /\ UNCHANGED <<detectorRegistry, env, opts, hvars, cvars>>

\* The loop is over: no detector detected the environment.
ReturnNotDetected ==
  /\ dpc = "loop"
  /\ di > Len(detectorRegistry)
  /\ dpc' = "done"
  /\ dret' = notDetected
  /\ UNCHANGED <<detectorRegistry, env, opts, di, invoked, hvars, cvars>>

DetectNext ==
  \/ \E o \in Opts : DetectEnvironment(o)
  \/ SkipDetector
  \/ CallDetect
  \/ ReturnNotDetected

SpecDetect == InitDetect /\ [][DetectNext]_vars

\* ------------------------------------------- the platform handler registry

\* Registered platform handlers of a registry: 0..MaxFactories.
MaxFactories == 2

\* The registries registerPlatformHandler may have built: item i holds the
\* i-th registered factory.
Registers ==
  UNION {
    { [i \in 1..n |-> [platform |-> p[i], targetType |-> t[i], factory |-> i]] :
        p \in [1..n -> {"github", "gitlab"}], t \in [1..n -> {"pull-request", "commit"}] }
    : n \in 0..MaxFactories }

\* A slip: the target type is not compared.
matchesItem_PlatformOnly(item, platform, targetType) == item.platform = platform

\* The test of the lookup loop.
matchesItem(item, platform, targetType) ==
  item.platform = platform /\ item.targetType = targetType

\* NewPlatformHandlerFactory on the register reg: the factory of the first
\* item that matches, or nil (0) and an error.
lookupFactory(reg, platform, targetType) ==
  LET hits == {i \in 1..Len(reg) : matchesItem(reg[i], platform, targetType)}
  IN  IF hits # {}
      THEN [platform |-> platform, targetType |-> targetType,
            factory |-> reg[CHOOSE i \in hits : \A j \in hits : i <= j].factory,
            err |-> ""]
      ELSE [platform |-> platform, targetType |-> targetType, factory |-> 0,
            err |-> platform \o " (" \o targetType \o ") is not supported"]

InitFactory ==
  /\ HandlerUnused
  /\ DetectUnused
  /\ tagFlag = ""
  /\ platformHandlerRegister \in Registers
  /\ factoryRet = NoFactoryRet
  /\ run = NoRun

NewPlatformHandlerFactory(platform, targetType) ==
  /\ factoryRet' = lookupFactory(platformHandlerRegister, platform, targetType)
  /\ UNCHANGED <<tagFlag, platformHandlerRegister, run, hvars, dvars>>

FactoryNext ==
  \E platform \in {"github", "gitlab", "bitbucket"}, targetType \in {"pull-request", "commit", ""} :
    NewPlatformHandlerFactory(platform, targetType)

SpecFactory == InitFactory /\ [][FactoryNext]_vars

\* --------------------------------------------------------- the command layer

\* The values of the --tag flag: not given, or given.
TagFlags == {"", "custom"}

\* The registry of the program: a factory for pull requests and for commits
\* of either platform.
CmdRegister ==
  <<[platform |-> "github", targetType |-> "pull-request", factory |-> 1],
    [platform |-> "github", targetType |-> "commit", factory |-> 2],
    [platform |-> "gitlab", targetType |-> "pull-request", factory |-> 3],
    [platform |-> "gitlab", targetType |-> "commit", factory |-> 4]>>

\* The Tag of the CommentHandler NewCommentHandler returns.
NewCommentHandlerTag(tag) == IF tag = "" THEN defaultTag ELSE tag

\* The Tag of the CommentHandler cmdHandler returns.
cmdHandlerTag(tag) == tag

\* The process has started: no CommentHandler is built yet, the target holds
\* at most one comment.
InitCmd ==
  /\ DetectUnused
  /\ tagFlag \in TagFlags
  /\ platformHandlerRegister = CmdRegister
  /\ factoryRet = NoFactoryRet
  /\ run = NoRun
  /\ comments \in {cs \in InitComments : Cardinality(cs) <= 1}
  /\ nextId = Cardinality(comments) + 1
  /\ Tag = ""
  /\ hideImplemented \in BOOLEAN
  /\ op = "none"
  /\ body = <<>>
  /\ pc = "start"
  /\ matchingComments = <<>>
  /\ todo = <<>>
  /\ target = Nil
  /\ calls = <<>>
  /\ err = "none"
  /\ ret = Nil
  /\ pre = {}
  /\ prev = NoOp
  /\ ctx = Live

\* A caller of the package builds the handler with NewCommentHandler.
NewCommentHandler ==
  /\ pc = "start"
  /\ Tag' = NewCommentHandlerTag(tagFlag)
  /\ pc' = "idle"
  /\ UNCHANGED <<comments, nextId, hideImplemented, op, body, matchingComments, todo, target,
                 calls, err, ret, pre, prev, ctx, cvars, dvars>>

\* cmdHandler: the factory of the platform and target type, the platform
\* handler the factory returns for the project, target ref and extra, the
\* CommentHandler around it.
cmdHandler(platform, project, targetType, targetRef, extra) ==
  /\ pc = "start"
  /\ factoryRet' = lookupFactory(platformHandlerRegister, platform, targetType)
  /\ IF factoryRet'.err # ""
     THEN /\ pc' = "failed"
          /\ err' = factoryRet'.err
          /\ Tag' = Tag
          /\ run' = run
     ELSE /\ run' = [run EXCEPT !.factoryArgs =
                       [project |-> project, targetRef |-> targetRef, extra |-> extra]]
          /\ \/ /\ pc' = "idle"
                /\ err' = err
                /\ Tag' = cmdHandlerTag(tagFlag)
             \/ /\ pc' = "failed"
                /\ err' = "error"
                /\ Tag' = Tag
  /\ UNCHANGED <<comments, nextId, hideImplemented, op, body, matchingComments, todo, target,
                 calls, ret, pre, prev, ctx, tagFlag, platformHandlerRegister, dvars>>

CmdNext ==
  \/ NewCommentHandler
  \/ \E platform \in {"github", "bitbucket"}, targetType \in {"pull-request", "commit"} :
       cmdHandler(platform, "owner/repo", targetType, "1", [kind |-> "GitHubExtra", Token |-> ""])
  \/ Next

SpecCmd == InitCmd /\ [][CmdNext]_vars

\* ---------------------------------------------------------- both registries

\* Environments in which the variables of either platform are all unset or
\* those of a pipeline for a commit.
LibEnvs ==
  {[vars |-> g.vars @@ l, eventFile |-> g.eventFile] : g \in GitHubPlain, l \in GitLabPlain}

\* The process after initialization: both registries are populated, neither
\* DetectEnvironment nor NewPlatformHandlerFactory has been called.
InitLib ==
  /\ HandlerUnused
  /\ tagFlag = ""
  /\ platformHandlerRegister \in Registers
  /\ factoryRet = NoFactoryRet
  /\ run = NoRun
  /\ \/ detectorRegistry \in RealRegistries /\ env \in LibEnvs
     \/ detectorRegistry \in {r \in StubRegistries : Len(r) <= 1} /\ env = EmptyEnv
  /\ opts = NoOpts
  /\ dpc = "idle"
  /\ di = 0
  /\ invoked = <<>>
  /\ dret = NoRet

\* Calls of DetectEnvironment and NewPlatformHandlerFactory in any sequence.
LibNext ==
  \/ DetectNext
  \/ FactoryNext

SpecLib == InitLib /\ [][LibNext]_vars

\* ------------------------------------------------------------ command runs

\* processTargetType: the target type a literal stands for, or an error.
processTargetType(s, allowEmpty) ==
  IF allowEmpty /\ s = "" THEN [val |-> "", err |-> ""]
  ELSE IF s \in {"pr", "pull-request", "mr", "merge-request"}
       THEN [val |-> "pull-request", err |-> ""]
  ELSE IF s = "commit" THEN [val |-> "commit", err |-> ""]
  ELSE [val |-> "",
        err |-> "Invalid target type '" \o s \o "', valid options are 'pull-request' ('pr'), "
                  \o "'merge-request' ('mr'), 'commit'"]

\* processPlatform: the platform a literal stands for, or an error.
processPlatform(s, allowEmpty) ==
  IF allowEmpty /\ s = "" THEN [val |-> "", err |-> ""]
  ELSE IF s \in {"github", "gitlab", ""} THEN [val |-> s, err |-> ""]
  ELSE [val |-> "",
        err |-> "Invalid platform '" \o s \o "', valid options are 'github', 'gitlab'"]

\* The subcommands that post a comment, and the one that gets it.
PostSubs == {"update", "new", "hide-and-new", "delete-and-new"}
Subs == PostSubs \cup {"latest"}

\* The operation of the handler a posting subcommand runs, and its first call.
handlerFunc(sub) ==
  CASE sub = "update" -> [op |-> "UpdateComment", first |-> "find"]
    [] sub = "new" -> [op |-> "NewComment", first |-> "create"]
    [] sub = "hide-and-new" -> [op |-> "HideAndNewComment", first |-> "find"]
    [] sub = "delete-and-new" -> [op |-> "DeleteAndNewComment", first |-> "find"]

\* The command lines: `compost github <sub> owner/repo <target-type> 1` and
\* `compost autodetect <sub>` with its --platform and --target-type flags;
\* the posting subcommands with --body and --body-file given or not.
Commands ==
  {[NoRun EXCEPT !.kind = k, !.sub = s, !.targetType = t, !.platformFlag = pf,
                 !.targetTypeFlag = tf, !.bodySet = b, !.bodyFileSet = bf] :
     k \in {"github", "autodetect"}, s \in Subs, t \in {"", "pr", "commit", "branch"},
     pf \in {"", "gitlab", "bitbucket"}, tf \in {"", "commit"}, b \in BOOLEAN, bf \in BOOLEAN}

\* A command line has the arguments and flags of its command only.
WellFormed(c) ==
  /\ c.kind = "github" => c.targetType # "" /\ c.platformFlag = "" /\ c.targetTypeFlag = ""
  /\ c.kind = "autodetect" => c.targetType = ""
  /\ c.sub = "latest" => ~c.bodySet /\ ~c.bodyFileSet

\* The registry of handlers for pull requests only.
PullRequestRegister == SelectSeq(CmdRegister, LAMBDA item : item.targetType = "pull-request")

\* The process has started with a command line: one visible comment at most
\* on the target, no handler built, nothing detected.
InitRun ==
  /\ run \in {c \in Commands : WellFormed(c)}
  /\ tagFlag \in TagFlags
  /\ platformHandlerRegister \in {CmdRegister, PullRequestRegister}
  /\ factoryRet = NoFactoryRet
  /\ IF run.kind = "autodetect"
     THEN \/ detectorRegistry = <<GitHubItem, GitLabItem>> /\ env \in LibEnvs
          \/ /\ detectorRegistry \in
                  {r \in StubRegistries : Len(r) = 1 /\ r[1].detector.outcome = "hard"}
             /\ env = EmptyEnv
     ELSE detectorRegistry = <<GitHubItem, GitLabItem>> /\ env = EmptyEnv
  /\ opts = NoOpts
  /\ dpc = "idle"
  /\ di = 0
  /\ invoked = <<>>
  /\ dret = NoRet
  /\ comments \in {cs \in InitComments :
                    /\ Cardinality(cs) <= 1
                    /\ \A c \in cs : ~c.hidden /\ c.createdAt = 1}
  /\ nextId = Cardinality(comments) + 1
  /\ Tag = ""
  /\ hideImplemented \in BOOLEAN
  /\ op = "none"
  /\ body = <<>>
  /\ pc = "start"
  /\ matchingComments = <<>>
  /\ todo = <<>>
  /\ target = Nil
  /\ calls = <<>>
  /\ err = "none"
  /\ ret = Nil
  /\ pre = {}
  /\ prev = NoOp
  /\ ctx = Live

\* The command ends with the error e.
Fail(e) ==
  /\ pc' = "failed"
  /\ err' = e
  /\ UNCHANGED <<comments, nextId, Tag, hideImplemented, op, body, matchingComments, todo,
                 target, calls, ret, pre, prev, ctx, cvars, dvars>>

\* githubCmdHandler: processArgs, then cmdHandler.
githubCmdHandler ==
  /\ pc = "start"
  /\ run.kind = "github"
  /\ IF processTargetType(run.targetType, FALSE).err # ""
     THEN Fail(processTargetType(run.targetType, FALSE).err)
     ELSE cmdHandler("github", "owner/repo", processTargetType(run.targetType, FALSE).val, "1",
                     [kind |-> "GitHubExtra", Token |-> "flagtoken"])

\* autodetectCmdHandler up to its call of DetectEnvironment.
autodetectCmdHandler ==
  /\ pc = "start"
  /\ run.kind = "autodetect"
  /\ dpc = "idle"
  /\ IF processPlatform(run.platformFlag, TRUE).err # ""
     THEN Fail(processPlatform(run.platformFlag, TRUE).err)
     ELSE IF processTargetType(run.targetTypeFlag, TRUE).err # ""
     THEN Fail(processTargetType(run.targetTypeFlag, TRUE).err)
     ELSE DetectEnvironment([Platform |-> processPlatform(run.platformFlag, TRUE).val,
                             TargetType |-> processTargetType(run.targetTypeFlag, TRUE).val])

\* A slip: cmdHandler is given the platform and target type that were asked
\* for, not the detected ones.
autodetectCmdHandlerDetected_Requested ==
  /\ pc = "start"
  /\ run.kind = "autodetect"
  /\ dpc = "done"
  /\ IF dret.err # NoErr
     THEN Fail(dret.err.msg)
     ELSE cmdHandler(opts.Platform, dret.result.Project, opts.TargetType,
                     dret.result.TargetRef, dret.result.Extra)

\* autodetectCmdHandler after DetectEnvironment returned: the error, or
\* cmdHandler with what was detected.
autodetectCmdHandlerDetected ==
  /\ pc = "start"
  /\ run.kind = "autodetect"
  /\ dpc = "done"
  /\ IF dret.err # NoErr
     THEN Fail(dret.err.msg)
     ELSE cmdHandler(dret.result.Platform, dret.result.Project, dret.result.TargetType,
                     dret.result.TargetRef, dret.result.Extra)

\* A slip: the body flags are validated before the handler is built.
processBodyFlags_First ==
  /\ pc = "start"
  /\ op = "none"
  /\ run.sub \in PostSubs
  /\ IF ~run.bodySet /\ ~run.bodyFileSet
     THEN Fail("--body or --body-file must be set")
     ELSE IF run.bodySet /\ run.bodyFileSet
     THEN Fail("--body and --body-file cannot be set at the same time")
     ELSE IF run.bodySet
     THEN /\ pc' = "ready"
          /\ body' = <<Txt("a")>>
          /\ UNCHANGED <<comments, nextId, Tag, hideImplemented, op, matchingComments, todo,
                         target, calls, err, ret, pre, prev, ctx, cvars, dvars>>
     ELSE \/ /\ pc' = "ready"
             /\ body' = <<Txt("b")>>
             /\ UNCHANGED <<comments, nextId, Tag, hideImplemented, op, matchingComments,
                            todo, target, calls, err, ret, pre, prev, ctx, cvars, dvars>>
          \/ Fail("Failed to read body file")

\* processBodyFlags, which postCommentRunE calls once the handler is built:
\* exactly one of --body and --body-file gives the body; the file may not be
\* readable.
processBodyFlags ==
  /\ pc = "idle"
  /\ op = "none"
  /\ run.sub \in PostSubs
  /\ IF ~run.bodySet /\ ~run.bodyFileSet
     THEN Fail("--body or --body-file must be set")
     ELSE IF run.bodySet /\ run.bodyFileSet
     THEN Fail("--body and --body-file cannot be set at the same time")
     ELSE IF run.bodySet
     THEN /\ pc' = "ready"
          /\ body' = <<Txt("a")>>
          /\ UNCHANGED <<comments, nextId, Tag, hideImplemented, op, matchingComments, todo,
                         target, calls, err, ret, pre, prev, ctx, cvars, dvars>>
     ELSE \/ /\ pc' = "ready"
             /\ body' = <<Txt("b")>>
             /\ UNCHANGED <<comments, nextId, Tag, hideImplemented, op, matchingComments,
                            todo, target, calls, err, ret, pre, prev, ctx, cvars, dvars>>
          \/ Fail("Failed to read body file")

\* postCommentRunE calls the operation of the subcommand with the body.
postCommentRunE ==
  /\ pc = "ready"
  /\ CanCreate
  /\ Begin(handlerFunc(run.sub).op, body, handlerFunc(run.sub).first)

\* getCommentRunE calls LatestMatchingComment once the handler is built.
getCommentRunE ==
  /\ pc = "idle"
  /\ op = "none"
  /\ run.sub = "latest"
  /\ Begin("LatestMatchingComment", <<>>, "find")

\* getCommentRunE after LatestMatchingComment returned: the error, or the body
\* of the comment printed when it is not empty.  LatestMatchingComment returns
\* a nil Comment when nothing matches, and Body() on it panics.
printComment ==
  /\ pc = "done"
  /\ run.sub = "latest"
  /\ IF err # "nil"
     THEN pc' = "failed" /\ run' = run
     ELSE IF ret = Nil
     THEN pc' = "exit" /\ run' = [run EXCEPT !.panicked = TRUE]
     ELSE /\ pc' = "exit"
          /\ run' = [run EXCEPT !.out = IF Body(ret) # <<>> THEN <<Body(ret)>> ELSE <<>>]
  /\ UNCHANGED <<comments, nextId, Tag, hideImplemented, op, body, matchingComments, todo,
                 target, calls, err, ret, pre, prev, ctx, tagFlag, platformHandlerRegister,
                 factoryRet, dvars>>

RunNext ==
  \/ githubCmdHandler
  \/ autodetectCmdHandler
  \/ SkipDetector
  \/ CallDetect
  \/ ReturnNotDetected
  \/ autodetectCmdHandlerDetected
  \/ processBodyFlags
  \/ postCommentRunE
  \/ getCommentRunE
  \/ CallFindMatchingComments
  \/ CallUpdateComment
  \/ CallCreateComment
  \/ CallHideComment
  \/ CallDeleteComment
  \/ printComment

SpecRun == InitRun /\ [][RunNext]_vars

\* ------------------------------------------------------------- properties

Range(s) == {s[i] : i \in 1..Len(s)}

\* The calls of a log that are one of `names`.
CallsOf(cs, names) == SelectSeq(cs, LAMBDA c : c.call \in names)

Mutating == {"create", "update", "delete", "hide"}

\* render(body, tag) of the running operation.
Rendered == addMarkdownTag(body, Tag)

\* The operation's CallFindMatchingComments returned without an error.
FindOk == Len(calls) >= 1 /\ calls[1].call = "find" /\ calls[1].res = "nil"

\* c is an element of M that the ordering places first: none is Less than it.
IsFirst(c, M) == c \in M /\ \A d \in M : ~Less(d, c)

\* The comment the ordering places first in the list find returned: among
\* those no comment is Less than, the one that arrived first; nil if none.
FirstOf(found) ==
  IF found = <<>> THEN Nil
  ELSE found[CHOOSE i \in 1..Len(found) :
               /\ IsFirst(found[i], Range(found))
               /\ \A j \in 1..(i - 1) : ~IsFirst(found[j], Range(found))]

\* The latest matching comment of the set cs, if any, does not hold the body b.
Stale(cs, b) == \A c \in Matching(cs, Tag) : IsFirst(c, Matching(cs, Tag)) => c.body # b

UpdateDone == pc = "done" /\ op = "UpdateComment"

\* C1: UpdateComment called twice in succession with the same body and tag
\* issues exactly one create-or-update call in total: the first invocation
\* issues it (when the latest matching comment did not hold the rendered body)
\* and the second issues no create, update, delete or hide call.
C1_UpdateTwiceIssuesOneCall ==
  (UpdateDone /\ prev.op = "UpdateComment" /\ prev.body = body) =>
    /\ CallsOf(calls, Mutating) = <<>>
    /\ Stale(prev.pre, Rendered) =>
         /\ Len(CallsOf(prev.calls, {"create", "update"})) = 1
         /\ Len(CallsOf(prev.calls, {"delete", "hide"})) = 0

\* No two matching comments of the set cs share a creation time.
NoTies(cs) == \A c, d \in Matching(cs, Tag) : c.createdAt = d.createdAt => c = d

\* The statement of C1 for comment sets in which the ordering leaves no tie.
UpdateTwiceIssuesOneCallWithoutTies ==
  (UpdateDone /\ prev.op = "UpdateComment" /\ prev.body = body /\ NoTies(prev.pre)) =>
    /\ CallsOf(calls, Mutating) = <<>>
    /\ Stale(prev.pre, Rendered) =>
         /\ Len(CallsOf(prev.calls, {"create", "update"})) = 1
         /\ Len(CallsOf(prev.calls, {"delete", "hide"})) = 0

\* C2: when the latest matching comment exists and its stored body equals
\* render(body, tag), UpdateComment issues no create, update, delete or hide
\* call, returns nil and leaves the comments on the target as they were.
C2_UpToDateIssuesNoMutation ==
  (UpdateDone /\ FindOk /\ matchingComments # <<>>
     /\ FirstOf(matchingComments).body = Rendered) =>
    /\ CallsOf(calls, Mutating) = <<>>
    /\ err = "nil"
    /\ comments = pre

C2_Witness ==
  /\ UpdateDone /\ FindOk /\ Len(matchingComments) = 2
  /\ FirstOf(matchingComments).body = Rendered
  /\ \E c \in Matching(pre, Tag) : c.body # Rendered
  /\ err = "nil"

\* C3: UpdateComment(body) followed by UpdateComment(body2), body2 # body,
\* makes the second invocation issue exactly one CallUpdateComment, on the
\* latest matching comment with the rendered body2, and no CallCreateComment:
\* the number of comments does not grow.
C3_SecondUpdateUpdatesInPlace ==
  (UpdateDone /\ prev.op = "UpdateComment" /\ prev.body # body /\ err = "nil") =>
    /\ Len(CallsOf(calls, {"update"})) = 1
    /\ CallsOf(calls, {"update"})[1].id = FirstOf(matchingComments).id
    /\ CallsOf(calls, {"update"})[1].body = Rendered
    /\ CallsOf(calls, {"create"}) = <<>>
    /\ Cardinality(comments) = Cardinality(pre)

\* The statement of C3 for comment sets in which the ordering leaves no tie.
SecondUpdateUpdatesInPlaceWithoutTies ==
  (UpdateDone /\ prev.op = "UpdateComment" /\ prev.body # body /\ err = "nil"
     /\ NoTies(prev.pre)) =>
    /\ Len(CallsOf(calls, {"update"})) = 1
    /\ CallsOf(calls, {"update"})[1].id = FirstOf(matchingComments).id
    /\ CallsOf(calls, {"update"})[1].body = Rendered
    /\ CallsOf(calls, {"create"}) = <<>>
    /\ Cardinality(comments) = Cardinality(pre)

\* C4: when find returns no matching comment, UpdateComment issues exactly
\* one CallCreateComment, with the body render(body, tag), and no
\* CallUpdateComment; it issues CallCreateComment in no other situation.
C4_CreatesOnlyWhenNoneMatches ==
  UpdateDone =>
    /\ (FindOk /\ Matching(pre, Tag) = {}) =>
         /\ Len(CallsOf(calls, {"create"})) = 1
         /\ CallsOf(calls, {"create"})[1].body = Rendered
         /\ CallsOf(calls, {"update"}) = <<>>
    /\ CallsOf(calls, {"create"}) # <<>> => (FindOk /\ Matching(pre, Tag) = {})

C4_Witness ==
  /\ UpdateDone /\ FindOk /\ Matching(pre, Tag) = {} /\ pre # {}
  /\ err = "nil"
  /\ \E c \in comments : c.body = Rendered /\ c \notin pre

\* The comments of cs that hold the body b.
Holding(cs, b) == {c \in cs : c.body = b}

\* C5: after any successful UpdateComment(body), starting from any set of
\* matching comments, at most one comment on the target holds the up-to-date
\* body render(body, tag).
C5_AtMostOneUpToDate ==
  (UpdateDone /\ err = "nil") => Cardinality(Holding(comments, Rendered)) <= 1

\* C5 as amended: after any successful UpdateComment(body), starting from a
\* set of matching comments in which no comment other than the latest match
\* holds the rendered body, at most one comment holds render(body, tag).
C5_AtMostOneUpToDateAmended ==
  (UpdateDone /\ err = "nil"
     /\ \A c \in Holding(pre, Rendered) : c.id = FirstOf(matchingComments).id) =>
    Cardinality(Holding(comments, Rendered)) <= 1

C5_Witness ==
  /\ UpdateDone /\ err = "nil"
  /\ Cardinality(Matching(pre, Tag)) = 2
  /\ Holding(pre, Rendered) = {}
  /\ CallsOf(calls, {"update"}) # <<>>
  /\ Cardinality(Holding(comments, Rendered)) = 1

\* C6: UpdateComment never issues an update, delete or hide call on a comment
\* other than the one LatestMatchingComment selects: every other comment is
\* the same after the operation as before, whether it succeeds or fails.
C6_OthersUntouched ==
  op = "UpdateComment" =>
    /\ CallsOf(calls, {"delete", "hide"}) = <<>>
    /\ \A i \in 1..Len(calls) :
         calls[i].call = "update" => calls[i].id = FirstOf(matchingComments).id
    /\ \A c \in pre : c.id # FirstOf(matchingComments).id => c \in comments

C6_Witness ==
  /\ UpdateDone /\ err = "nil"
  /\ Cardinality(Matching(pre, Tag)) = 2
  /\ CallsOf(calls, {"update"}) # <<>>
  /\ comments # pre

\* C7: LatestMatchingComment returns nil (and no error) if and only if no
\* comment matches; otherwise it returns the element the Less ordering places
\* first, the same one for every order in which find returns the comments.
C7_LatestIsOrderIndependent ==
  (pc = "done" /\ op = "LatestMatchingComment" /\ FindOk) =>
    /\ err = "nil"
    /\ ret = Nil <=> Matching(pre, Tag) = {}
    /\ ret # Nil => IsFirst(ret, Matching(pre, Tag))
    /\ \A found \in Perms(Matching(pre, Tag)) : latestMatchingComment(found) = ret

\* The statement of C7 for comment sets in which the ordering leaves no tie.
LatestIsOrderIndependentWithoutTies ==
  (pc = "done" /\ op = "LatestMatchingComment" /\ FindOk /\ NoTies(pre)) =>
    /\ err = "nil"
    /\ ret = Nil <=> Matching(pre, Tag) = {}
    /\ ret # Nil => IsFirst(ret, Matching(pre, Tag))
    /\ \A found \in Perms(Matching(pre, Tag)) : latestMatchingComment(found) = ret

\* The calls of the log before its i-th all returned nil.
AllOkBefore(cs, i) == \A j \in 1..(i - 1) : cs[j].res = "nil"

Ids(cs) == {c.id : c \in cs}

\* The calls `name` of the log went to the comments `ids`, one call each.
OnePerComment(cs, name, ids) ==
  /\ \A i \in 1..Len(cs) : cs[i].call = name => cs[i].id \in ids
  /\ \A i, j \in 1..Len(cs) :
       (cs[i].call = name /\ cs[j].call = name /\ cs[i].id = cs[j].id) => i = j

\* The create calls of the log: at most one, the last call, after calls that
\* all returned nil.
CreateComesLast(cs) ==
  /\ Len(CallsOf(cs, {"create"})) <= 1
  /\ \A i \in 1..Len(cs) : cs[i].call = "create" => (i = Len(cs) /\ AllOkBefore(cs, i))

\* C8: HideAndNewComment on matching comments of which v are visible issues
\* exactly v CallHideComment calls, one per visible comment and none for a
\* hidden one, and only after all of them succeeded exactly one
\* CallCreateComment.
C8_HidesVisibleThenCreates ==
  (pc = "done" /\ op = "HideAndNewComment" /\ FindOk) =>
    LET visible == {c \in Matching(pre, Tag) : ~c.hidden}
        hides == CallsOf(calls, {"hide"})
    IN  /\ OnePerComment(calls, "hide", Ids(visible))
        /\ CreateComesLast(calls)
        /\ (\A i \in 1..Len(hides) : hides[i].res = "nil") =>
             /\ Len(hides) = Cardinality(visible)
             /\ Len(CallsOf(calls, {"create"})) = 1
        /\ CallsOf(calls, {"create"}) # <<>> => Len(hides) = Cardinality(visible)

C8_Witness ==
  /\ pc = "done" /\ op = "HideAndNewComment" /\ err = "nil"
  /\ \E c, d \in Matching(pre, Tag) : c.hidden /\ ~d.hidden
  /\ Len(CallsOf(calls, {"hide"})) = 1
  /\ Len(CallsOf(calls, {"create"})) = 1

\* C9: on a platform whose CallHideComment is not supported, HideAndNewComment
\* fails with 'not implemented' and creates no comment, for every set of
\* matching comments.
C9_NoHideSupportAlwaysFails ==
  (pc = "done" /\ op = "HideAndNewComment" /\ FindOk /\ ~hideImplemented) =>
    /\ err = "not implemented"
    /\ CallsOf(calls, {"create"}) = <<>>

\* C10: DeleteAndNewComment on N matching comments issues exactly N
\* CallDeleteComment calls, one per matching comment, hidden or visible, and
\* only after all of them succeeded exactly one CallCreateComment.
C10_DeletesAllThenCreates ==
  (pc = "done" /\ op = "DeleteAndNewComment" /\ FindOk) =>
    LET deletes == CallsOf(calls, {"delete"})
    IN  /\ OnePerComment(calls, "delete", Ids(Matching(pre, Tag)))
        /\ CreateComesLast(calls)
        /\ (\A i \in 1..Len(deletes) : deletes[i].res = "nil") =>
             /\ Len(deletes) = Cardinality(Matching(pre, Tag))
             /\ Len(CallsOf(calls, {"create"})) = 1
        /\ CallsOf(calls, {"create"}) # <<>> =>
             Len(deletes) = Cardinality(Matching(pre, Tag))

C10_Witness ==
  /\ pc = "done" /\ op = "DeleteAndNewComment" /\ err = "nil"
  /\ \E c, d \in Matching(pre, Tag) : c.hidden /\ ~d.hidden
  /\ Len(CallsOf(calls, {"delete"})) = 2
  /\ Len(CallsOf(calls, {"create"})) = 1

\* The comments after the successful hide, delete and update calls of a log
\* were applied to cs, in the order of the log.
RECURSIVE Applied(_, _)
Applied(cs, log) ==
  IF log = <<>> THEN cs
  ELSE LET c == Head(log)
           after == CASE c.res # "nil" -> cs
                      [] c.call = "update" -> Updated(cs, [id |-> c.id], c.body)
                      [] c.call = "hide" -> Hidden(cs, [id |-> c.id])
                      [] c.call = "delete" -> Deleted(cs, [id |-> c.id])
                      [] OTHER -> cs
       IN  Applied(after, Tail(log))

\* C11: in every operation the first platform call that fails ends the
\* operation: it is the last call of the operation, the operation returns the
\* error of that call, and the comments are what the earlier successful calls
\* made of them.
C11_FirstFailureEnds ==
  /\ \A i \in 1..Len(calls) :
       calls[i].res # "nil" => i = Len(calls) /\ pc = "done" /\ err = calls[i].res
  /\ (pc = "done" /\ err # "nil") =>
       /\ calls # <<>>
       /\ calls[Len(calls)].res = err
       /\ CallsOf(calls, {"create"}) \in {<<>>, <<calls[Len(calls)]>>}
       /\ comments = Applied(pre, calls)

C11_Witness ==
  /\ pc = "done" /\ op = "HideAndNewComment" /\ err = "error"
  /\ Len(calls) = 3
  /\ calls[2].call = "hide" /\ calls[2].res = "nil"
  /\ calls[3].call = "hide" /\ calls[3].res = "error"
  /\ comments # pre

\* C12: NewComment issues exactly one CallCreateComment, with exactly the body
\* of the caller, and no other call, whatever comments the target holds.
C12_NewCommentCreatesRaw ==
  (pc = "done" /\ op = "NewComment") =>
    /\ Len(calls) = 1
    /\ calls[1].call = "create"
    /\ calls[1].body = body
    /\ ~HasTag(calls[1].body, Tag)

C12_Witness ==
  /\ pc = "done" /\ op = "NewComment" /\ err = "nil"
  /\ calls = <<Call("create", Nil, body, "nil")>>
  /\ Matching(pre, Tag) # {}
  /\ \E c \in comments : c.body = body /\ c \notin pre

\* ------------------------------------------- properties of the detector chain

\* What the detector of registry item i returns for the running call.
Outcome(i) == Detect(detectorRegistry[i].detector, env, opts)

\* Whether the platform filter of the call admits registry item i.
Admitted(i) ==
  \/ opts.Platform = ""
  \/ \E j \in 1..Len(detectorRegistry[i].supportedPlatforms) :
       detectorRegistry[i].supportedPlatforms[j] = opts.Platform

Soft(e) == e.type = "DetectError"
Hard(e) == e.type = "error"

\* C13: a detector that fails with an error that is not a DetectError ends
\* the chain: DetectEnvironment returns that same error with the zero result
\* and invokes no detector registered after it.
C13_HardErrorAborts ==
  \A k \in 1..Len(invoked) :
    Hard(invoked[k].err) =>
      /\ k = Len(invoked)
      /\ dpc = "done"
      /\ dret.err = invoked[k].err
      /\ dret.result = EmptyResult

C13_Witness ==
  /\ dpc = "done"
  /\ Len(detectorRegistry) = 3
  /\ Len(invoked) = 2
  /\ invoked[1].i = 1 /\ Soft(invoked[1].err)
  /\ invoked[2].i = 2 /\ Hard(invoked[2].err)
  /\ Admitted(3)
  /\ dret.err = Outcome(2).err

\* C14: the first candidate detector, in registration order, that succeeds
\* determines the result: DetectEnvironment returns its DetectResult unchanged
\* with a nil error and invokes no detector after it.
C14_FirstSuccessWins ==
  /\ \A k \in 1..Len(invoked) :
       invoked[k].err = NoErr =>
         /\ k = Len(invoked)
         /\ dpc = "done"
         /\ dret = [result |-> Outcome(invoked[k].i).result, err |-> NoErr]
  /\ (dpc = "done" /\ dret.err = NoErr) =>
       /\ invoked # <<>>
       /\ invoked[Len(invoked)].err = NoErr
       /\ \A j \in 1..(invoked[Len(invoked)].i - 1) : Admitted(j) => Soft(Outcome(j).err)

C14_Witness ==
  /\ dpc = "done"
  /\ dret.err = NoErr
  /\ Len(invoked) = 2
  /\ Soft(invoked[1].err)
  /\ Len(detectorRegistry) = 3
  /\ Admitted(3)
  /\ Outcome(3).err = NoErr
  /\ Outcome(3).result # dret.result

\* C15: a detector that returns a DetectError is passed over, and when every
\* candidate returned one (or there is no candidate) DetectEnvironment returns
\* the 'could not detect' error and the zero DetectResult, never success.
C15_AllSoftIsNotDetected ==
  /\ \A k \in 1..Len(invoked) :
       (Soft(invoked[k].err) /\ dpc = "done") =>
         \/ k < Len(invoked)
         \/ \A j \in (invoked[k].i + 1)..Len(detectorRegistry) : ~Admitted(j)
  /\ (dpc = "done" /\ \A i \in 1..Len(detectorRegistry) : Admitted(i) => Soft(Outcome(i).err)) =>
       /\ Soft(dret.err)
       /\ dret.err.msg = "Could not to detect environment"
       /\ dret.result = EmptyResult
       /\ Len(invoked) = Cardinality({i \in 1..Len(detectorRegistry) : Admitted(i)})

C15_Witness ==
  /\ dpc = "done"
  /\ Len(invoked) = 2
  /\ \A k \in 1..2 : Soft(invoked[k].err)
  /\ Soft(dret.err)
  /\ dret.err # invoked[2].err

\* The registry items the loop has been through.
Visited ==
  IF dpc = "done" /\ invoked # <<>> /\ ~Soft(invoked[Len(invoked)].err)
  THEN 1..di
  ELSE 1..(di - 1)

\* C16: the detectors are invoked in registration order, each at most once,
\* and exactly those the platform filter admits: never one whose supported
\* platforms lack a requested platform, and every one when no platform is
\* requested.
C16_RegistrationOrderAndFilter ==
  /\ \A k, l \in 1..Len(invoked) : k < l => invoked[k].i < invoked[l].i
  /\ \A k \in 1..Len(invoked) : Admitted(invoked[k].i)
  /\ dpc # "idle" => {invoked[k].i : k \in 1..Len(invoked)} = {i \in Visited : Admitted(i)}
  /\ (dpc # "idle" /\ opts.Platform = "") =>
       {invoked[k].i : k \in 1..Len(invoked)} = Visited

C16_Witness ==
  /\ dpc = "done"
  /\ opts.Platform = "gitlab"
  /\ Len(invoked) = 2
  /\ invoked[1].i = 1 /\ invoked[2].i = 3
  /\ ~Admitted(2)

\* C17: a DetectResult that the GitHub Actions detector, the GitLab CI
\* detector or DetectEnvironment over them returns with a nil error has a
\* non-empty TargetRef.
C17_SuccessHasTargetRef ==
  detectorRegistry \in RealRegistries =>
    /\ \A k \in 1..Len(invoked) : invoked[k].err = NoErr => invoked[k].result.TargetRef # ""
    /\ (dpc = "done" /\ dret.err = NoErr) => dret.result.TargetRef # ""

C17_Witness ==
  /\ detectorRegistry = <<GitHubItem, GitLabItem>>
  /\ dpc = "done"
  /\ dret.err = NoErr
  /\ Len(invoked) = 2
  /\ opts.TargetType = ""
  /\ Getenv(env, "CI_MERGE_REQUEST_IID") = ""
  /\ dret.result.Platform = "gitlab"
  /\ dret.result.TargetType = "commit"
  /\ dret.result.TargetRef = Getenv(env, "CI_COMMIT_SHA")

\* The marker and the credentials of the detector of item i are present, and
\* the event file, if any, can be read.
Applies(i) ==
  CASE detectorRegistry[i].detector.kind = "GitHubActions" ->
         /\ Getenv(env, "GITHUB_ACTIONS") = "true"
         /\ Getenv(env, "GITHUB_TOKEN") # ""
         /\ Getenv(env, "GITHUB_REPOSITORY") # ""
         /\ Getenv(env, "GITHUB_EVENT_PATH") # "" => env.eventFile.readable /\ env.eventFile.valid
    [] detectorRegistry[i].detector.kind = "GitLabCI" ->
         /\ Getenv(env, "GITLAB_CI") = "true"
         /\ Getenv(env, "GITLAB_TOKEN") # ""
         /\ Getenv(env, "CI_PROJECT_PATH") # ""
    [] OTHER -> FALSE

\* C18: in a detector whose marker and credentials are present, failing to
\* resolve a target ref is an error that is not a DetectError, so that
\* DetectEnvironment aborts with it instead of trying the next detector.
C18_UnresolvedRefIsHardError ==
  \A k \in 1..Len(invoked) :
    (Applies(invoked[k].i) /\ invoked[k].err # NoErr) =>
      /\ Hard(invoked[k].err)
      /\ k = Len(invoked)
      /\ dpc = "done" /\ dret.err = invoked[k].err

\* ------------------------------- properties of the registry and the command

\* The items of the register registered for the pair of the last lookup.
Registered ==
  {i \in 1..Len(platformHandlerRegister) :
     /\ platformHandlerRegister[i].platform = factoryRet.platform
     /\ platformHandlerRegister[i].targetType = factoryRet.targetType}

\* C19: NewPlatformHandlerFactory returns the factory registered for exactly
\* the pair asked for when there is one, and otherwise nil with an error that
\* names the platform and the target type; never a factory of another pair.
C19_FactoryOfExactPair ==
  factoryRet # NoFactoryRet =>
    IF Registered # {}
    THEN /\ factoryRet.err = ""
         /\ \E i \in Registered : factoryRet.factory = platformHandlerRegister[i].factory
    ELSE /\ factoryRet.factory = 0
         /\ factoryRet.err =
              factoryRet.platform \o " (" \o factoryRet.targetType \o ") is not supported"

C19_Witness ==
  /\ Len(platformHandlerRegister) = 2
  /\ platformHandlerRegister[1].platform = platformHandlerRegister[2].platform
  /\ platformHandlerRegister[1].targetType # platformHandlerRegister[2].targetType
  /\ Registered = {2}
  /\ factoryRet.factory = 2
  /\ factoryRet.err = ""

\* A lookup of a pair that is not registered fails with the error naming it.
UnsupportedPairIsNamed ==
  (factoryRet.platform = "bitbucket" /\ factoryRet.targetType = "commit") =>
    /\ factoryRet.factory = 0
    /\ factoryRet.err = "bitbucket (commit) is not supported"

\* C20: when no tag is configured, the tag passed to CallFindMatchingComments
\* and the tag the body is rendered with are the default tag, whichever way
\* the CommentHandler was built.
C20_EmptyTagMeansDefault ==
  tagFlag = "" =>
    \A i \in 1..Len(calls) :
      /\ calls[i].call = "find" => calls[i].body = <<markdownTag(defaultTag)>>
      /\ (op = "UpdateComment" /\ calls[i].call \in {"create", "update"}) =>
           calls[i].body = addMarkdownTag(body, defaultTag)

\* The handler NewCommentHandler builds has the default tag when none is
\* configured.
NewCommentHandlerDefaultsTag ==
  (pc \notin {"start", "failed"} /\ factoryRet = NoFactoryRet /\ tagFlag = "") =>
    Tag = defaultTag

\* ------------------------------------------ properties of the two detectors

\* The kind of the detector of registry item i.
Kind(i) == detectorRegistry[i].detector.kind

\* The pull or merge request number the environment holds for the detector of
\* item i, "" when it holds none.
RequestNumber(i) ==
  IF Kind(i) = "GitHubActions"
  THEN IF Getenv(env, "GITHUB_EVENT_PATH") # "" /\ env.eventFile.Number # 0
       THEN Itoa(env.eventFile.Number)
       ELSE ""
  ELSE Getenv(env, "CI_MERGE_REQUEST_IID")

\* The commit SHA the environment holds for the detector of item i.
CommitSHA(i) ==
  IF Kind(i) = "GitHubActions"
  THEN IF Getenv(env, "GITHUB_EVENT_PATH") # "" /\ env.eventFile.SHA # ""
       THEN env.eventFile.SHA
       ELSE Getenv(env, "GITHUB_SHA")
  ELSE Getenv(env, "CI_COMMIT_SHA")

\* Detect returned the target type and ref with a nil error.
Detected(r, type, ref) ==
  r.err = NoErr /\ r.result.TargetType = type /\ r.result.TargetRef = ref

\* The target type and ref a detector of one of `kinds` returns, its marker
\* and credentials being present.
TargetTypeResolution(kinds) ==
  \A k \in 1..Len(invoked) :
    (Kind(invoked[k].i) \in kinds /\ Applies(invoked[k].i)) =>
      LET number == RequestNumber(invoked[k].i)
          sha == CommitSHA(invoked[k].i)
      IN  /\ (opts.TargetType = "" /\ number = "" /\ sha # "") =>
               Detected(invoked[k], "commit", sha)
          /\ (opts.TargetType = "" /\ number # "") =>
               Detected(invoked[k], "pull-request", number)
          /\ (opts.TargetType = "commit" /\ sha # "") =>
               Detected(invoked[k], "commit", sha)

\* C21: with marker and credentials present, a detector returns "commit" with
\* the commit SHA when nothing is pinned and there is no pull or merge
\* request number, "pull-request" with the number when nothing is pinned and
\* there is one, and "commit" with the commit SHA when "commit" is pinned.
C21_TargetTypeResolution == TargetTypeResolution({"GitHubActions", "GitLabCI"})

\* The GitLab CI detector resolves the target type that way.
GitLabTargetTypeResolution == TargetTypeResolution({"GitLabCI"})

\* What a detector of one of `kinds` returns when it succeeds.
SuccessIsTyped(kinds) ==
  \A k \in 1..Len(invoked) :
    Kind(invoked[k].i) \in kinds =>
      LET r == invoked[k]
          number == RequestNumber(r.i)
          sha == CommitSHA(r.i)
      IN  /\ r.err = NoErr =>
               /\ r.result.TargetType \in {"pull-request", "commit"}
               /\ opts.TargetType # "" => r.result.TargetType = opts.TargetType
               /\ r.result.TargetType = "pull-request" =>
                    number # "" /\ r.result.TargetRef = number
               /\ r.result.TargetType = "commit" => sha # "" /\ r.result.TargetRef = sha
          /\ (opts.TargetType = "pull-request" /\ number = "") => r.err # NoErr

\* C22: a detector that succeeds returns "pull-request" or "commit", the
\* pinned target type when one is pinned, and a target ref of that type: the
\* number of the pull or merge request, or the commit SHA; with "pull-request"
\* pinned and no pull or merge request it does not succeed.
C22_SuccessIsTyped == SuccessIsTyped({"GitHubActions", "GitLabCI"})

\* The GitLab CI detector succeeds that way.
GitLabSuccessIsTyped == SuccessIsTyped({"GitLabCI"})

\* The marker of the detector of item i is "true" and its token and project
\* are set.
MarkerAndCredentials(i) ==
  IF Kind(i) = "GitHubActions"
  THEN /\ Getenv(env, "GITHUB_ACTIONS") = "true"
       /\ Getenv(env, "GITHUB_TOKEN") # ""
       /\ Getenv(env, "GITHUB_REPOSITORY") # ""
  ELSE /\ Getenv(env, "GITLAB_CI") = "true"
       /\ Getenv(env, "GITLAB_TOKEN") # ""
       /\ Getenv(env, "CI_PROJECT_PATH") # ""

\* C23: a detector whose marker is absent or not "true", or whose token or
\* project is absent, returns a DetectError, so that in a chain of the two
\* detectors the second one still detects an environment of its platform.
C23_MissingMarkerIsSoft ==
  detectorRegistry \in RealRegistries =>
    /\ \A k \in 1..Len(invoked) :
         ~MarkerAndCredentials(invoked[k].i) =>
           Soft(invoked[k].err) /\ invoked[k].result = EmptyResult
    /\ (dpc = "done" /\ opts.Platform = "" /\ ~MarkerAndCredentials(1)
          /\ Outcome(2).err = NoErr) =>
         /\ Len(invoked) = 2
         /\ dret = [result |-> Outcome(2).result, err |-> NoErr]

C23_Witness ==
  /\ detectorRegistry = <<GitLabItem, GitHubItem>>
  /\ dpc = "done"
  /\ opts.Platform = ""
  /\ Getenv(env, "GITLAB_CI") = "false"
  /\ Len(invoked) = 2
  /\ Soft(invoked[1].err)
  /\ dret.err = NoErr
  /\ dret.result.Platform = "github"

\* ------------------------------------------- properties of untagged comments

\* The comments of cs that do not carry the marker of the handler's tag.
Untagged(cs) == {c \in cs : ~HasTag(c.body, Tag)}

C26_NoCallAfterCancel ==
  (ctx.cancelled /\ ctx.at >= 1) =>
    /\ Len(calls) = ctx.at
    /\ pc = "done" => err # "nil"

\* ---------------------------------------------- properties of both registries

\* C28: no step of a DetectEnvironment or NewPlatformHandlerFactory call,
\* successful or failing, changes the detector registry or the platform
\* handler registry.
C28_RegistriesAreNotChanged ==
  [][/\ detectorRegistry' = detectorRegistry
     /\ platformHandlerRegister' = platformHandlerRegister]_vars

\* A detection that skipped a detector and succeeded, and a lookup that
\* failed, over registries of two items each.
C28_Witness ==
  /\ Len(detectorRegistry) = 2
  /\ Len(platformHandlerRegister) = 2
  /\ dpc = "done"
  /\ opts.Platform = "gitlab"
  /\ dret.err = NoErr
  /\ factoryRet # NoFactoryRet
  /\ factoryRet.err # ""

\* C24: when no comment matches the tag, the `latest` command
\* (getCommentRunE applied to LatestMatchingComment) treats the "no comment"
\* result as a normal outcome: it finishes without an error or a crash and
\* prints nothing.
C24_NoCommentIsNormal ==
  (/\ run.sub = "latest"
   /\ op = "LatestMatchingComment"
   /\ pc \in {"exit", "failed"}
   /\ Len(calls) = 1 /\ calls[1].res = "nil"
   /\ matchingComments = <<>>)
  => pc = "exit" /\ err = "nil" /\ ~run.panicked /\ run.out = <<>>

\* The `latest` command does print the body of the comment it finds.
LatestPrintsTheComment ==
  (/\ run.sub = "latest"
   /\ pc = "exit"
   /\ matchingComments # <<>>)
  => ~run.panicked /\ run.out = <<Body(latestMatchingComment(matchingComments))>>

\* The command ended with the error of processBodyFlags for neither or both
\* of --body and --body-file.
BodyFlagError ==
  /\ pc = "failed"
  /\ err \in {"--body or --body-file must be set",
              "--body and --body-file cannot be set at the same time"}

\* C25: in every comment-posting command, the validation error on the body
\* flags (neither --body nor --body-file set, or both set) is raised before
\* any other activity: before environment detection, before the platform
\* handler is constructed by its factory, and before any platform call.
C25_ValidationIsFirst ==
  BodyFlagError =>
    /\ dpc = "idle" /\ invoked = <<>>
    /\ factoryRet = NoFactoryRet /\ run.factoryArgs = NoFactoryArgs
    /\ calls = <<>>

\* C25, amended: the validation error on the body flags is raised before any
\* platform call and before the operation starts, but after the handler was
\* built: the arguments or the --platform and --target-type flags were
\* processed, the environment was detected on the autodetect path, the
\* factory was looked up and invoked; a command with neither or both body
\* flags never makes a platform call.
C25_ValidationBeforePlatformCalls ==
  /\ BodyFlagError =>
       /\ calls = <<>> /\ op = "none"
       /\ factoryRet.err = "" /\ factoryRet.factory # 0
       /\ run.factoryArgs # NoFactoryArgs
       /\ run.kind = "autodetect" => dpc = "done" /\ dret.err = NoErr
  /\ (run.sub \in PostSubs /\ run.bodySet = run.bodyFileSet) =>
       calls = <<>> /\ pc \in {"start", "idle", "failed"}

C25_Witness ==
  /\ BodyFlagError
  /\ run.kind = "autodetect"
  /\ run.bodySet /\ run.bodyFileSet
  /\ dret.result.Platform = "gitlab"
  /\ factoryRet.factory # 0

\* What cmdHandler hands to the factory when it is given the detected result.
DetectedArgs ==
  [project |-> dret.result.Project, targetRef |-> dret.result.TargetRef,
   extra |-> dret.result.Extra]

\* C27: on the autodetect path a failed detection (hard error or "environment
\* not detected") ends the command with that error before any factory
\* lookup, handler construction or platform call; a successful detection
\* looks up the factory with exactly the detected platform and target type
\* and invokes it with exactly the detected project, target ref and extra;
\* an unsupported detected pair ends the command before any platform call.
C27_DetectionFeedsFactory ==
  run.kind = "autodetect" =>
    /\ (dpc # "done" \/ dret.err # NoErr) =>
         /\ factoryRet = NoFactoryRet
         /\ run.factoryArgs = NoFactoryArgs
         /\ Tag = ""
         /\ calls = <<>>
    /\ (dpc = "done" /\ dret.err # NoErr /\ pc # "start") =>
         pc = "failed" /\ err = dret.err.msg
    /\ factoryRet # NoFactoryRet =>
         /\ factoryRet.platform = dret.result.Platform
         /\ factoryRet.targetType = dret.result.TargetType
         /\ IF factoryRet.err = ""
            THEN run.factoryArgs = DetectedArgs
            ELSE /\ pc = "failed" /\ err = factoryRet.err
                 /\ run.factoryArgs = NoFactoryArgs
                 /\ calls = <<>>

C27_Witness ==
  /\ run.kind = "autodetect"
  /\ dpc = "done" /\ dret.err = NoErr
  /\ factoryRet.factory # 0
  /\ run.factoryArgs = DetectedArgs
  /\ dret.result.Extra.Token # ""
  /\ calls # <<>>

\* The other cases of the autodetect path happen: a hard error, no detector
\* that applies, a detected pair without a registered handler.
AutodetectHardError ==
  run.kind = "autodetect" /\ pc = "failed" /\ dret.err.type = "error"
AutodetectNotDetected ==
  run.kind = "autodetect" /\ pc = "failed" /\ dret = notDetected
AutodetectUnsupportedPair ==
  run.kind = "autodetect" /\ pc = "failed" /\ dret.err = NoErr /\ factoryRet.err # ""

====
